---- MODULE Spec2Model ----
(***************************************************************************)
(* Insight-Pulse: the generate -> execute -> self-heal loop of             *)
(* DataScienceAgent (src/agent.py), its configuration (src/config.py) and  *)
(* the Streamlit script that drives it (src/mainapp.py).                   *)
(*                                                                         *)
(* Texts (LLM replies, code strings, error messages, reports) are          *)
(* sequences of tokens; "[fence]" is the three-backtick fence marker and   *)
(* "python" the tag that may follow it.  The LLM collaborators and the     *)
(* CodeExecutor are environment: each of their calls is one step whose     *)
(* outcome is chosen from a small set.                                     *)
(***************************************************************************)
EXTENDS Integers, Sequences, FiniteSets, TLC

\* ------------------------------------------------------------------ bounds
MaxConfigRetries == 2   \* MAX_RETRIES environment values are 1..MaxConfigRetries
MaxRetriesArg == 3      \* max_retries arguments of a direct call are 1..MaxRetriesArg
MaxHistory == 2         \* instructions recorded per agent before the model stops submitting
MaxChat == 2            \* results kept in the session's chat_history
MaxTurns == 5           \* turns one agent keeps, in the long-history specification
MaxReplyLen == 5        \* tokens of a collaborator reply, in the extraction specification

\* ------------------------------------------------------- program constants
DefaultMaxRetries == 3  \* def execute_with_retry(self, code, max_retries=3)
HistoryWindow == 3      \* self.conversation_history[-3:]
AgentPrefixLen == 200   \* h['agent'][:200]

\* ------------------------------------------------------------ input sets
None == "None"
Datasets == {"d1", "d2"}
Instructions == {"i1", "i2"}
Fence == <<"[fence]">>
PyFence == <<"[fence]", "python">>
Whitespace == {" ", "\n"}
\* replies of the LLM (generator and fixer): raw, python-fenced, plain-fenced,
\* and an untagged block followed by a python-tagged one
LLMReplies ==
  { <<"c1">>,
    <<"[fence]", "python", "\n", "c2", "\n", "[fence]">>,
    <<"sure", "\n", "[fence]", "\n", "c1", "\n", "[fence]", "\n", "done">>,
    <<"[fence]", "c1", "[fence]", " ", "[fence]", "python", " ", "c2", "[fence]">> }
Reports == { <<>>, <<"r1">> }
CollabErrors == { <<"quota">> }
ExecErrors == { <<"e1">>, <<"e2">> }
UserVars == {"result"}
Reserved == {"pd", "np", "plt", "px", "go", "df"}
\* what one run of a code string can leave behind: printed text, figures, bindings
Effects ==
  { [output |-> <<>>,     figures |-> <<>>,       binds |-> {}],
    [output |-> <<"o1">>, figures |-> <<"fig1">>, binds |-> {"result"}] }

VARIABLES
  MAX_RETRIES,            \* Config.MAX_RETRIES
  df, executor, conversation_history,          \* DataScienceAgent fields
  pc, call,               \* where the running call stands; which entry point runs
  user_instruction, pcode,                     \* process_instruction locals
  code, max_retries, attempt, result,          \* execute_with_retry locals
  ret,                    \* what the last finished call handed to its caller
  genCalls, execCalls, fixCalls, reportCalls,  \* collaborator calls of the current call
  raised,                 \* which collaborator call of the current call raised
  request,                \* what the collaborator call in flight was given
  reply,                  \* the collaborator reply the code about to run came from
  session_agent, uploaded_file, data_loaded, chat_history,  \* st.session_state
  objects,                \* two sessions: the dataset objects in memory
  agent_df,               \* two sessions: each agent's self.df
  contexts                \* two sessions: each agent's executor.context

soloVars == << MAX_RETRIES, df, executor, conversation_history, pc, call,
           user_instruction, pcode, code, max_retries, attempt, result, ret,
           genCalls, execCalls, fixCalls, reportCalls, raised, request, reply,
           session_agent, uploaded_file, data_loaded, chat_history >>

fleetVars == << objects, agent_df, contexts >>
vars == << soloVars, fleetVars >>

agentVars == << df, executor, conversation_history >>
sessionVars == << session_agent, uploaded_file, data_loaded >>
callCounts == << genCalls, execCalls, fixCalls, reportCalls >>
counters == << callCounts, raised >>
retryLocals == << code, max_retries, attempt, result >>

\* ------------------------------------------------------------ text helpers
Occurs(s, p, i) == i + Len(p) - 1 <= Len(s) /\ SubSeq(s, i, i + Len(p) - 1) = p

\* p in s
Contains(s, p) == \E i \in 1..Len(s) : Occurs(s, p, i)

\* index of the first occurrence of p in s, 0 if there is none
IndexOf(s, p) ==
  IF Contains(s, p)
  THEN CHOOSE i \in 1..Len(s) : Occurs(s, p, i) /\ \A j \in 1..(i - 1) : ~Occurs(s, p, j)
  ELSE 0

\* s.split(p)[0]
SplitPart0(s, p) ==
  LET i == IndexOf(s, p) IN IF i = 0 THEN s ELSE SubSeq(s, 1, i - 1)

\* s.split(p)[1], for s that contains p
SplitPart1(s, p) ==
  LET i == IndexOf(s, p) IN SplitPart0(SubSeq(s, i + Len(p), Len(s)), p)

RECURSIVE LStrip(_)
LStrip(s) == IF s # <<>> /\ Head(s) \in Whitespace THEN LStrip(Tail(s)) ELSE s

RECURSIVE RStrip(_)
RStrip(s) ==
  IF s # <<>> /\ s[Len(s)] \in Whitespace THEN RStrip(SubSeq(s, 1, Len(s) - 1)) ELSE s

\* s.strip()
Strip(s) == RStrip(LStrip(s))

\* analyze_and_generate_code: "Extract code from markdown if present"
ExtractGenerated(text) ==
  IF Contains(text, PyFence) THEN Strip(SplitPart0(SplitPart1(text, PyFence), Fence))
  ELSE IF Contains(text, Fence) THEN Strip(SplitPart0(SplitPart1(text, Fence), Fence))
  ELSE text

\* (variant: any fence is looked for before a python-tagged one)
ExtractFixedAnyFenceFirst(text) ==
  IF Contains(text, Fence) THEN Strip(SplitPart0(SplitPart1(text, Fence), Fence))
  ELSE IF Contains(text, PyFence)
  THEN Strip(SplitPart0(SplitPart1(text, PyFence), Fence))
  ELSE text

\* execute_with_retry: "Extract code from markdown if present"
ExtractFixed(text) ==
  IF Contains(text, PyFence) THEN Strip(SplitPart0(SplitPart1(text, PyFence), Fence))
  ELSE IF Contains(text, Fence) THEN Strip(SplitPart0(SplitPart1(text, Fence), Fence))
  ELSE text

\* f"Agent error: {str(e)}"
AgentError(e) == <<"Agent error: ">> \o e

NoDatasetError == <<"No dataset loaded. Please upload a CSV file first.">>
\* ------------------------------------------------------------ agent values
\* self.executor = None
NoExecutor == [isNone |-> TRUE, context |-> {}]

\* CodeExecutor({'pd': ..., 'np': ..., 'plt': ..., 'px': ..., 'go': ..., 'df': self.df})
NewExecutor == [isNone |-> FALSE, context |-> Reserved]

\* result before the first executor.execute call of execute_with_retry
NoResult ==
  [success |-> FALSE, output |-> <<>>, error |-> <<>>, figures |-> <<>>, context |-> {}]

NoReturn == [kind |-> "none"]
Returned(v) == [kind |-> "returned", value |-> v]
Raised(e) == [kind |-> "raised", error |-> e]

\* no collaborator call is in flight
NoRequest == [kind |-> "none"]

\* the code about to run did not come from a collaborator reply of this call
NoReply == [kind |-> "none"]

\* response.content of the generator / of the fixer
Reply(who, text) == [kind |-> who, text |-> text]

\* get_data_summary(): the summary of the loaded dataset (the model keeps the
\* dataset's name)
DataSummary(d) == IF d = None THEN "No data loaded" ELSE d

\* (variant: every turn is read back)
LastTurnsWholeHistory(h) == h

\* self.conversation_history[-3:]
LastTurns(h) ==
  IF Len(h) > HistoryWindow THEN SubSeq(h, Len(h) - HistoryWindow + 1, Len(h)) ELSE h

\* t[:n]
Prefix(t, n) == IF Len(t) > n THEN SubSeq(t, 1, n) ELSE t

\* f"User: {h['user']}\nAgent: {h['agent'][:200]}..."
FormatTurn(h) ==
  <<"User: ", h.user, "\nAgent: ">> \o Prefix(h.agent, AgentPrefixLen) \o <<"...">>

\* sep.join(texts)
RECURSIVE Join(_, _)
Join(texts, sep) ==
  IF texts = <<>> THEN <<>>
  ELSE IF Len(texts) = 1 THEN texts[1]
  ELSE texts[1] \o sep \o Join(Tail(texts), sep)

\* analyze_and_generate_code: history_text
HistoryText(h) ==
  IF h # <<>>
  THEN Join([k \in 1..Len(LastTurns(h)) |-> FormatTurn(LastTurns(h)[k])], <<"\n">>)
  ELSE <<"No previous conversation">>

\* analyze_and_generate_code: chain.invoke({data_summary, user_instruction, history})
GenerateRequest(i, d, h) ==
  [kind |-> "generate", data_summary |-> DataSummary(d), user_instruction |-> i,
   history |-> HistoryText(h)]

\* (variant: the repair request carries the code the generator produced)
FixRequestOriginalCode(c, r) == [kind |-> "fix", code |-> pcode, error |-> r.error]

\* execute_with_retry: chain.invoke({"code": code, "error": result['error']})
FixRequest(c, r) == [kind |-> "fix", code |-> c, error |-> r.error]

\* generate_final_report: the workspace names kept as metrics
Metrics(ctx) == { k \in ctx : k \notin {"pd", "np", "plt", "px", "go", "df"} }

\* generate_final_report: chain.invoke({"metrics": ..., "outputs": ...})
ReportRequest(ctx, r) == [kind |-> "report", metrics |-> Metrics(ctx), outputs |-> r.output]

\* (variant: the context snapshot is the whole workspace)
ExecutionResultUnfiltered(ok, eff, err, ctx) ==
  [success |-> ok, output |-> eff.output, error |-> IF ok THEN <<>> ELSE err,
   figures |-> eff.figures, context |-> ctx]

\* CodeExecutor.execute(code): the ExecutionResult of one run that ended ok or
\* raised err, having printed/plotted/bound eff, in a workspace now holding ctx
ExecutionResult(ok, eff, err, ctx) ==
  [success |-> ok, output |-> eff.output, error |-> IF ok THEN <<>> ELSE err,
   figures |-> eff.figures, context |-> ctx \ Reserved]

\* process_instruction: the result when self.df is None
NoDatasetPayload == [success |-> FALSE, error |-> NoDatasetError]

\* process_instruction: the result of the except branch
AgentErrorPayload(e) == [success |-> FALSE, error |-> AgentError(e)]

\* process_instruction: the result after execute_with_retry returned r
ResultPayload(c, r, rep) ==
  [success |-> r.success, code |-> c, output |-> r.output, error |-> r.error,
   figures |-> r.figures, report |-> rep, context |-> r.context]

\* process_instruction: "Update conversation history"
HistoryTurn(i, rep, r) == [user |-> i, agent |-> IF rep # <<>> THEN rep ELSE r.error]

\* the retry budget process_instruction passes: self.execute_with_retry(code)
ProcessRetryBudget == DefaultMaxRetries

\* (variant: the dataset check is missing)
NoDatasetUnchecked(dfNow) == FALSE

\* process_instruction: if self.df is None
NoDataset(dfNow) == dfNow = None

\* (variant: off by one, attempt < max_retries)
AttemptsRemainOffByOne(a, m) == a < m

\* execute_with_retry: if attempt < max_retries - 1
AttemptsRemain(a, m) == a < m - 1

\* (variant: the success test is missing)
NeedsRepairIgnoringSuccess(r, a, m) == a < m - 1

\* execute_with_retry: the attempt returned r; not successful and attempts
\* remain, so the fixer is asked
NeedsRepair(r, a, m) == ~r.success /\ AttemptsRemain(a, m)

\* (variant: a failure is reported with a synthesized error)
RetryReturnValueGaveUp(r) ==
  IF r.success THEN r ELSE [r EXCEPT !.error = <<"Execution failed">>]

\* execute_with_retry: return result
RetryReturnValue(r) == r

\* ------------------------------------------------------ two sessions
\* two DataScienceAgent instances, one per Streamlit session
Agents == {"a1", "a2"}

\* the dataset objects two callers hold (pd.read_csv results)
Files == {"file1", "file2"}
FileData(f) == IF f = "file1" THEN "d1" ELSE "d2"

\* the object df.copy() returns to agent a
CopyOf(a) == IF a = "a1" THEN "copy1" ELSE "copy2"
Objects == Files \cup { CopyOf(a) : a \in Agents }

\* a dataset object: the data it was read from and who changed it in place
Frame(d) == [data |-> d, edits |-> {}]
NoFrame == [data |-> None, edits |-> {}]

\* the names a workspace may hold in the two-session model
Names == Reserved \cup {"result", "tmp"}
Aliases == Reserved \ {"df"}

\* self.executor = None
NoContext == [n \in Names |-> None]

\* CodeExecutor({'pd': pd, ..., 'df': self.df}): the aliases are bound to the
\* imported modules, df to the object o
SeededContext(o) ==
  [n \in Names |-> IF n \in Aliases THEN "module" ELSE IF n = "df" THEN o ELSE None]

\* (variant: the agent keeps the caller's object)
DfAlias(a, f) == f

\* load_data: self.df = df.copy()
DfCopy(a, f) == CopyOf(a)

TypeOK ==
  /\ MAX_RETRIES \in 1..MaxConfigRetries
  /\ df \in Datasets \cup {None}
  /\ executor.isNone \in BOOLEAN /\ executor.context \subseteq (Reserved \cup UserVars)
  /\ Len(conversation_history) <= MaxHistory
  /\ pc \in {"idle", "generate", "execute", "fix", "report"}
  /\ call \in {"none", "retry", "process", "app"}
  /\ attempt \in 0..MaxRetriesArg
  /\ ret.kind \in {"none", "returned", "raised"}
  /\ raised \in {"none", "generator", "fixer", "summarizer"}
  /\ request.kind \in {"none", "generate", "fix", "report"}
  /\ reply.kind \in {"none", "generator", "fixer"}
  /\ session_agent \in BOOLEAN /\ data_loaded \in BOOLEAN
  /\ uploaded_file \in Datasets \cup {None}
  /\ Len(chat_history) <= MaxChat

\* ------------------------------------------------------------------- Init
\* a freshly constructed DataScienceAgent, before any load_data
Init ==
  /\ MAX_RETRIES \in 1..MaxConfigRetries
  /\ df = None /\ executor = NoExecutor /\ conversation_history = <<>>
  /\ pc = "idle" /\ call = "none"
  /\ user_instruction = None /\ pcode = <<>>
  /\ code = <<>> /\ max_retries = DefaultMaxRetries /\ attempt = 0 /\ result = NoResult
  /\ ret = NoReturn
  /\ genCalls = 0 /\ execCalls = 0 /\ fixCalls = 0 /\ reportCalls = 0
  /\ raised = "none" /\ request = NoRequest /\ reply = NoReply
  /\ session_agent = FALSE /\ uploaded_file = None /\ data_loaded = FALSE
  /\ chat_history = <<>>
  /\ objects = [o \in Objects |-> IF o \in Files THEN Frame(FileData(o)) ELSE NoFrame]
  /\ agent_df = [a \in Agents |-> None]
  /\ contexts = [a \in Agents |-> NoContext]

\* --------------------------------------------------------- finishing a call
\* the running call hands v to its caller; of its locals the model keeps the
\* retry budget, the code last executed and the last ExecutionResult; the
\* Streamlit script appends the instruction and the result of
\* process_instruction to st.session_state.chat_history (the model keeps the
\* result's success flag there; the whole result is in ret)
Finish(v) ==
  /\ ret' = v
  /\ pc' = "idle"
  /\ request' = NoRequest /\ reply' = NoReply
  /\ user_instruction' = None /\ pcode' = <<>> /\ attempt' = 0
  /\ UNCHANGED << code, max_retries >>
  /\ chat_history' =
       IF call = "app"
       THEN Append(chat_history,
                   [instruction |-> user_instruction, success |-> v.value.success])
       ELSE chat_history

\* a collaborator call raised e: the direct caller of execute_with_retry sees
\* the exception, process_instruction catches it
FinishRaise(who, e) ==
  /\ raised' = who
  /\ IF call = "retry" THEN Finish(Raised(e)) ELSE Finish(Returned(AgentErrorPayload(e)))

\* execute_with_retry returns r to whoever called it
ReturnFromRetry(r) ==
  IF call = "retry"
  THEN /\ Finish(Returned(RetryReturnValue(r)))
       /\ result' = r
       /\ UNCHANGED << conversation_history, reportCalls >>
  ELSE IF RetryReturnValue(r).success
  THEN \* generate_final_report([result]) is called
       /\ pc' = "report"
       /\ reportCalls' = reportCalls + 1
       /\ request' = ReportRequest(executor'.context, RetryReturnValue(r))
       /\ reply' = NoReply
       /\ result' = r
       /\ UNCHANGED << conversation_history, ret, chat_history,
                       user_instruction, pcode, code, max_retries, attempt >>
  ELSE \* report = "": history is updated and the result returned
       /\ conversation_history' =
            Append(conversation_history,
                   HistoryTurn(user_instruction, <<>>, RetryReturnValue(r)))
       /\ Finish(Returned(ResultPayload(pcode, RetryReturnValue(r), <<>>)))
       /\ result' = r
       /\ UNCHANGED reportCalls

\* ------------------------------------------------------ DataScienceAgent API
\* load_data(df)
LoadData(d) ==
  /\ df' = d
  /\ executor' = NewExecutor

CallLoadData(d) ==
  /\ pc = "idle"
  /\ LoadData(d)
  /\ UNCHANGED << fleetVars, MAX_RETRIES, request, reply,
                  conversation_history, pc, call, user_instruction, pcode,
                  retryLocals, ret, counters, sessionVars, chat_history >>

\* process_instruction(i) up to its first blocking call, with self.df = dfNow
\* and self.conversation_history = h
BeginProcess(i, who, dfNow, h) ==
  /\ call' = who
  /\ user_instruction' = i
  /\ pcode' = <<>>
  /\ code' = <<>> /\ max_retries' = DefaultMaxRetries /\ attempt' = 0 /\ result' = NoResult
  /\ execCalls' = 0 /\ fixCalls' = 0 /\ reportCalls' = 0 /\ raised' = "none"
  /\ reply' = NoReply
  /\ IF NoDataset(dfNow)
     THEN /\ genCalls' = 0
          /\ request' = NoRequest
          /\ ret' = Returned(NoDatasetPayload)
          /\ pc' = "idle"
     ELSE \* analyze_and_generate_code: chain.invoke(...)
          /\ genCalls' = 1
          /\ request' = GenerateRequest(i, dfNow, h)
          /\ ret' = NoReturn
          /\ pc' = "generate"

\* a caller's process_instruction(i), while the history holds fewer than limit
\* turns
SubmitInstruction(i, limit) ==
  /\ pc = "idle"
  /\ Len(conversation_history) < limit
  /\ BeginProcess(i, "process", df, conversation_history)
  /\ UNCHANGED << fleetVars, MAX_RETRIES, agentVars, sessionVars,
                  chat_history >>

\* execute_with_retry(c, m) called directly
ProcessInstruction(i) == SubmitInstruction(i, MaxHistory)

ExecuteWithRetry(c, m) ==
  /\ pc = "idle"
  /\ call' = "retry"
  /\ code' = c /\ max_retries' = m /\ attempt' = 0 /\ result' = NoResult
  /\ genCalls' = 0 /\ execCalls' = 0 /\ fixCalls' = 0 /\ reportCalls' = 0
  /\ raised' = "none" /\ request' = NoRequest /\ reply' = NoReply
  /\ IF executor.isNone
     THEN \* self.executor.execute on None
          /\ ret' = Raised(<<"AttributeError">>)
          /\ pc' = "idle"
     ELSE /\ ret' = NoReturn
          /\ pc' = "execute"
  /\ UNCHANGED << fleetVars, MAX_RETRIES, agentVars, user_instruction, pcode,
                  sessionVars, chat_history >>

\* ------------------------------------------------------------ the steps
\* the generator replied: extract the code, enter execute_with_retry(code)
GenerateReturn(text) ==
  /\ pc = "generate"
  /\ reply' = Reply("generator", text)
  /\ request' = NoRequest
  /\ pcode' = ExtractGenerated(text)
  /\ code' = pcode'
  /\ max_retries' = ProcessRetryBudget
  /\ attempt' = 0
  /\ pc' = "execute"
  /\ UNCHANGED << fleetVars, MAX_RETRIES, agentVars, call, user_instruction,
                  result, ret, counters, sessionVars, chat_history >>

\* the generator call raised
GenerateRaise(e) ==
  /\ pc = "generate"
  /\ FinishRaise("generator", e)
  /\ UNCHANGED << fleetVars, MAX_RETRIES, agentVars, call, result, callCounts,
                  sessionVars >>

\* one pass of the loop body: result = self.executor.execute(code), then the
\* success test and the attempts-remaining test
Execute(ok, eff, err) ==
  /\ pc = "execute"
  /\ LET ctx == executor.context \cup eff.binds
         r == ExecutionResult(ok, eff, err, ctx)
     IN /\ executor' = [executor EXCEPT !.context = ctx]
        /\ execCalls' = execCalls + 1
        /\ IF NeedsRepair(r, attempt, max_retries)
           THEN \* chain.invoke({"code": code, "error": result['error']})
                /\ pc' = "fix"
                /\ request' = FixRequest(code, r)
                /\ reply' = NoReply
                /\ result' = r
                /\ fixCalls' = fixCalls + 1
                /\ UNCHANGED << conversation_history, ret, chat_history,
                                reportCalls, user_instruction, pcode, code,
                                max_retries, attempt >>
           ELSE /\ ReturnFromRetry(r)
                /\ UNCHANGED fixCalls
  /\ UNCHANGED << fleetVars, MAX_RETRIES, df, call, genCalls, raised,
                  sessionVars >>

\* the fixer replied: extract the code, next attempt
FixReturn(text) ==
  /\ pc = "fix"
  /\ reply' = Reply("fixer", text)
  /\ request' = NoRequest
  /\ code' = ExtractFixed(text)
  /\ attempt' = attempt + 1
  /\ pc' = "execute"
  /\ UNCHANGED << fleetVars, MAX_RETRIES, agentVars, call, user_instruction,
                  pcode, max_retries, result, ret, counters, sessionVars,
                  chat_history >>

\* (variant: the fixer's exception is swallowed and the old code tried again)
FixRaiseSwallowed(e) ==
  /\ pc = "fix"
  /\ raised' = "fixer"
  /\ request' = NoRequest /\ reply' = NoReply
  /\ attempt' = attempt + 1
  /\ pc' = "execute"
  /\ UNCHANGED << fleetVars, MAX_RETRIES, agentVars, call, user_instruction,
                  pcode, code, max_retries, result, ret, callCounts,
                  sessionVars, chat_history >>

\* the fixer call raised
FixRaise(e) ==
  /\ pc = "fix"
  /\ FinishRaise("fixer", e)
  /\ UNCHANGED << fleetVars, MAX_RETRIES, agentVars, call, result, callCounts,
                  sessionVars >>

\* the summarizer replied: history is updated and the result returned
ReportReturn(text) ==
  /\ pc = "report"
  /\ conversation_history' =
       Append(conversation_history, HistoryTurn(user_instruction, text, result))
  /\ Finish(Returned(ResultPayload(pcode, result, text)))
  /\ UNCHANGED << fleetVars, MAX_RETRIES, df, executor, call, result,
                  counters, sessionVars >>

\* the summarizer call raised
ReportRaise(e) ==
  /\ pc = "report"
  /\ FinishRaise("summarizer", e)
  /\ UNCHANGED << fleetVars, MAX_RETRIES, agentVars, call, result, callCounts,
                  sessionVars >>

Steps ==
  \/ \E text \in LLMReplies : GenerateReturn(text)
  \/ \E e \in CollabErrors : GenerateRaise(e)
  \/ \E ok \in BOOLEAN, eff \in Effects, err \in ExecErrors : Execute(ok, eff, err)
  \/ \E text \in LLMReplies : FixReturn(text)
  \/ \E e \in CollabErrors : FixRaise(e)
  \/ \E text \in Reports : ReportReturn(text)
  \/ \E e \in CollabErrors : ReportRaise(e)

DirectCodes == { ExtractGenerated(t) : t \in LLMReplies }

\* a caller using the DataScienceAgent API directly
Next ==
  \/ \E d \in Datasets : CallLoadData(d)
  \/ \E i \in Instructions : ProcessInstruction(i)
  \/ \E c \in DirectCodes, m \in 1..MaxRetriesArg : ExecuteWithRetry(c, m)
  \/ Steps

Spec == Init /\ [][Next]_vars

\* --------------------------------------------------- the Streamlit script
\* mainapp.py, "if uploaded_file is not None": read the file (pd.read_csv is
\* taken to succeed), create the agent if the session has none, load the data
\* into it
\* (variant: the script builds a new agent whenever a file is there)
UploadBlockNewAgent(f) ==
  /\ session_agent' = TRUE
  /\ conversation_history' = <<>>
  /\ LoadData(f)
  /\ data_loaded' = TRUE

UploadBlock(f) ==
  /\ session_agent' = TRUE
  /\ conversation_history' = IF session_agent THEN conversation_history ELSE <<>>
  /\ LoadData(f)
  /\ data_loaded' = TRUE

\* the user uploads (or replaces) a CSV file: the script reruns
AppUpload(d) ==
  /\ pc = "idle"
  /\ uploaded_file' = d
  /\ UploadBlock(d)
  /\ UNCHANGED << fleetVars, MAX_RETRIES, request, reply, pc, call,
                  user_instruction, pcode, retryLocals, ret, counters,
                  chat_history >>

\* the user removes the file from the uploader: the script reruns and shows
\* the welcome screen
AppRemoveFile ==
  /\ pc = "idle"
  /\ uploaded_file # None
  /\ uploaded_file' = None
  /\ UNCHANGED << fleetVars, MAX_RETRIES, request, reply, agentVars, pc, call,
                  user_instruction, pcode, retryLocals, ret, counters,
                  session_agent, data_loaded, chat_history >>

\* any other widget interaction (the theme toggle, a download button, typing
\* the instruction) reruns the script with the file still in the uploader
AppRerun ==
  /\ pc = "idle"
  /\ uploaded_file # None
  /\ UploadBlock(uploaded_file)
  /\ UNCHANGED << fleetVars, MAX_RETRIES, request, reply, pc, call,
                  user_instruction, pcode, retryLocals, ret, counters,
                  uploaded_file, chat_history >>

\* the user presses Execute (or a quick action) with instruction i: the script
\* reruns, passes the upload block and calls agent.process_instruction(i)
AppExecute(i) ==
  /\ pc = "idle"
  /\ uploaded_file # None
  /\ Len(chat_history) < MaxChat
  /\ Len(conversation_history) < MaxHistory
  /\ UploadBlock(uploaded_file)
  /\ BeginProcess(i, "app", df', conversation_history')
  /\ UNCHANGED << fleetVars, MAX_RETRIES, uploaded_file, chat_history >>

\* "Clear & Reload": the session is reset and the script reruns; a file still
\* in the uploader is loaded into a new agent
AppClearReload ==
  /\ pc = "idle"
  /\ data_loaded
  /\ chat_history' = <<>>
  /\ conversation_history' = <<>>
  /\ IF uploaded_file # None
     THEN /\ session_agent' = TRUE
          /\ LoadData(uploaded_file)
          /\ data_loaded' = TRUE
     ELSE /\ session_agent' = FALSE
          /\ df' = None
          /\ executor' = NoExecutor
          /\ data_loaded' = FALSE
  /\ UNCHANGED << fleetVars, MAX_RETRIES, request, reply, pc, call,
                  user_instruction, pcode, retryLocals, ret, counters,
                  uploaded_file >>

\* a browser session of the application
NextApp ==
  \/ \E d \in Datasets : AppUpload(d)
  \/ AppRemoveFile
  \/ AppRerun
  \/ \E i \in Instructions : AppExecute(i)
  \/ AppClearReload
  \/ Steps

SpecApp == Init /\ [][NextApp]_vars

\* ------------------------------------------------------------------ claims
InProcess == call \in {"process", "app"}
Idle == pc = "idle"
\* the finished call returned a value (it did not raise)
HasReturned == Idle /\ ret.kind = "returned"
\* process_instruction returned the payload built after execute_with_retry
ReturnedPayload == HasReturned /\ InProcess /\ "code" \in DOMAIN ret.value
PayloadFields == {"success", "code", "output", "error", "figures", "report", "context"}

\* C1: one call of execute_with_retry issues at most max_retries
\* executor.execute calls, whatever the outcomes, and with max_retries = 1 it
\* never calls the fixer.
C1_ExecuteCallsWithinBudget ==
  /\ execCalls <= max_retries
  /\ fixCalls <= max_retries - 1
  /\ (max_retries = 1 => fixCalls = 0)

\* a direct call with max_retries = 1 whose only attempt failed
C1_Witness ==
  /\ HasReturned /\ call = "retry" /\ max_retries = 1
  /\ ~ret.value.success /\ execCalls = 1 /\ fixCalls = 0

\* C2: when every attempt fails, execute_with_retry returns the last attempt's
\* ExecutionResult unchanged, after exactly max_retries execute calls and
\* max_retries - 1 fixer calls (no further variant is requested or run).
C2_ExhaustedReturnsLastResult ==
  /\ (HasReturned /\ call = "retry" /\ ~ret.value.success) =>
        /\ ret.value = result
        /\ execCalls = max_retries
        /\ fixCalls = max_retries - 1
  /\ (ReturnedPayload /\ ~ret.value.success) =>
        /\ ret.value.error = result.error /\ ret.value.output = result.output
        /\ ret.value.figures = result.figures /\ ret.value.context = result.context
        /\ execCalls = max_retries
        /\ fixCalls = max_retries - 1

\* three failing attempts with max_retries = 3: the third error is returned
C2_Witness ==
  /\ HasReturned /\ call = "retry" /\ max_retries = 3
  /\ execCalls = 3 /\ fixCalls = 2
  /\ ~ret.value.success /\ ret.value.error = <<"e2">> /\ ret.value = result

\* C3: a successful executor.execute is the last step of the retry loop: no
\* execute or fixer call follows it, and execute_with_retry returns that
\* attempt's ExecutionResult.
C3_SuccessIsTerminal ==
  result.success =>
    /\ pc \in {"idle", "report"}
    /\ fixCalls = execCalls - 1
    /\ (Idle /\ call = "retry" => ret = Returned(result))
    /\ (pc = "report" => InProcess /\ reportCalls = 1)

\* success on the second of three allowed attempts
C3_Witness ==
  /\ HasReturned /\ call = "retry" /\ max_retries = 3
  /\ result.success /\ ret.value = result /\ execCalls = 2 /\ fixCalls = 1

\* C4 (as claimed): the payload's code is the code of the last attempt that
\* was executed.
C4_PayloadCodeIsLastAttempted ==
  ReturnedPayload => ret.value.code = code

\* C5 (as claimed): when execution succeeded, process_instruction returns
\* success = true with the attempt's output, figures and context, also when
\* the summarizer raised.
C5_SummarizerFailureKeepsSuccess ==
  (Idle /\ InProcess /\ result.success) =>
    /\ ret.kind = "returned"
    /\ ret.value.success
    /\ "code" \in DOMAIN ret.value
    /\ ret.value.output = result.output
    /\ ret.value.figures = result.figures
    /\ ret.value.context = result.context

\* C6: process_instruction on an agent with no dataset returns a failure at
\* once: no generator, execute, fixer or summarizer call is made.
C6_NoDatasetFailsImmediately ==
  (df = None /\ call = "process") =>
    /\ HasReturned
    /\ ~ret.value.success
    /\ ret.value.error = NoDatasetError
    /\ genCalls = 0 /\ execCalls = 0 /\ fixCalls = 0 /\ reportCalls = 0

\* an instruction was processed before any load_data
C6_Witness ==
  /\ df = None /\ executor.isNone /\ call = "process"
  /\ ret = Returned(NoDatasetPayload)

\* C7: when the generator call or a fixer call raises, process_instruction
\* stops there: the call is not repeated, no execute call follows, and the
\* caller gets a failure whose error is "Agent error: " followed by the
\* collaborator's message, in a result that carries no code or output (an
\* execution failure carries the code and the executor's error text).
C7_CollaboratorFailureStops ==
  (raised \in {"generator", "fixer"} /\ InProcess) =>
    /\ HasReturned
    /\ ~ret.value.success
    /\ \E e \in CollabErrors : ret.value.error = <<"Agent error: ">> \o e
    /\ ret.value.error \notin ExecErrors
    /\ "code" \notin DOMAIN ret.value
    /\ genCalls = 1
    /\ reportCalls = 0
    /\ (raised = "generator" => execCalls = 0 /\ fixCalls = 0)
    /\ (raised = "fixer" => execCalls >= 1 /\ fixCalls = execCalls)

\* the fixer raised after the second failing attempt
C7_Witness ==
  /\ raised = "fixer" /\ call = "process" /\ Idle
  /\ execCalls = 2 /\ fixCalls = 2
  /\ ret = Returned(AgentErrorPayload(<<"quota">>))

\* C8 (as claimed): every result of process_instruction has all seven fields.
C8_AllSevenFields ==
  (HasReturned /\ InProcess) => DOMAIN ret.value = PayloadFields

\* C9 (as claimed): an instruction whose every attempt fails has made exactly
\* Config.MAX_RETRIES execute calls.
C9_BudgetIsConfigured ==
  (ReturnedPayload /\ ~ret.value.success) => execCalls = MAX_RETRIES

\* C10 (as claimed): when the application starts the next instruction for
\* the dataset already loaded, the Workspace is the one the previous
\* instruction left, with its bindings.
C10_WorkspaceSurvivesInstructions ==
  [][ ( /\ pc = "idle" /\ pc' = "generate"
        /\ session_agent /\ df = uploaded_file /\ uploaded_file' = uploaded_file )
      => executor' = executor ]_vars

\* ------------------------------------------------------ two sessions
\* agent a: load_data(f)
LoadDataInto(a, f) ==
  LET o == DfCopy(a, f)
  IN /\ objects' = IF o = f THEN objects ELSE [objects EXCEPT ![o] = Frame(objects[f].data)]
     /\ agent_df' = [agent_df EXCEPT ![a] = o]
     /\ contexts' = [contexts EXCEPT ![a] = SeededContext(o)]
     /\ UNCHANGED soloVars

\* code run by agent a's executor binds the name n (df included: df = ...)
BindName(a, n) ==
  /\ agent_df[a] # None
  /\ contexts' = [contexts EXCEPT ![a][n] = a]
  /\ UNCHANGED << soloVars, objects, agent_df >>

\* code run by agent a's executor changes the object bound to df in place
\* (df['col'] = ..., df.drop(..., inplace=True))
EditDf(a) ==
  /\ agent_df[a] # None
  /\ contexts[a]["df"] \in Objects
  /\ objects' = [objects EXCEPT ![contexts[a]["df"]].edits = @ \cup {a}]
  /\ UNCHANGED << soloVars, agent_df, contexts >>

NextTwo ==
  \/ \E a \in Agents, f \in Files : LoadDataInto(a, f)
  \/ \E a \in Agents, n \in Names \ Aliases : BindName(a, n)
  \/ \E a \in Agents : EditDf(a)

SpecTwo == Init /\ [][NextTwo]_vars

\* ------------------------------------------------ every short reply
\* the tokens a collaborator reply is made of, and every reply of at most
\* MaxReplyLen tokens, next to the longer replies of LLMReplies
ReplyTokens == {"[fence]", "python", "\n", "c1"}
ReplyTexts == LLMReplies \cup UNION { [1..k -> ReplyTokens] : k \in 0..MaxReplyLen }

\* one instruction, whose generator replies any text, and direct calls of
\* execute_with_retry, whose fixer replies any text; every execution fails
NextExtract ==
  \/ CallLoadData("d1")
  \/ SubmitInstruction("i1", 1)
  \/ ExecuteWithRetry(<<"c1">>, 2)
  \/ \E text \in ReplyTexts : GenerateReturn(text)
  \/ Execute(FALSE, [output |-> <<>>, figures |-> <<>>, binds |-> {}], <<"e1">>)
  \/ \E text \in (IF call = "retry" THEN ReplyTexts ELSE LLMReplies) : FixReturn(text)

SpecExtract == Init /\ [][NextExtract]_vars

\* ------------------------------------------------ a long-lived agent
\* one agent, one dataset, many instructions: the history outgrows the window
\* read into the prompt
NextHistory ==
  \/ CallLoadData("d1")
  \/ \E i \in Instructions : SubmitInstruction(i, MaxTurns)
  \/ GenerateReturn(<<"c1">>)
  \/ \E ok \in BOOLEAN :
       Execute(ok, [output |-> <<>>, figures |-> <<>>, binds |-> {}], <<"e1">>)
  \/ FixReturn(<<"c2">>)
  \/ ReportReturn(<<"r1">>)

SpecHistory == Init /\ [][NextHistory]_vars

\* C11: the context field of a payload returned by process_instruction never
\* holds df or one of the library aliases pd, np, plt, px, go; it holds only
\* names bound by generated code.
C11_ContextHasNoReservedNames ==
  ReturnedPayload =>
    /\ ret.value.context \cap {"df", "pd", "np", "plt", "px", "go"} = {}
    /\ ret.value.context \subseteq UserVars

\* the generated code bound result in a workspace that holds df, and the
\* payload was returned
C11_Witness ==
  /\ ReturnedPayload /\ ret.value.success
  /\ "result" \in ret.value.context
  /\ {"df", "result"} \subseteq executor.context

\* the k-th of the (at most three) turns that were appended last to h
RecentTurn(h, k) == h[Len(h) - (IF Len(h) < 3 THEN Len(h) ELSE 3) + k]

RecentCount(h) == IF Len(h) < 3 THEN Len(h) ELSE 3

\* the rendering of h's most recent turns, oldest first
RECURSIVE RecentText(_, _)
RecentText(h, k) ==
  IF k > RecentCount(h) THEN <<>>
  ELSE (IF k > 1 THEN <<"\n">> ELSE <<>>)
       \o <<"User: ", RecentTurn(h, k).user, "\nAgent: ">>
       \o RecentTurn(h, k).agent \o <<"...">>
       \o RecentText(h, k + 1)

\* C12: the generation prompt of an instruction reads exactly the three most
\* recent turns, in insertion order, however long the history is; and no step
\* removes or changes a turn, so the length of the history never decreases.
C12_PromptReadsLastThreeTurns ==
  /\ [](pc = "generate" =>
          request.history =
            IF conversation_history = <<>> THEN <<"No previous conversation">>
            ELSE RecentText(conversation_history, 1))
  /\ [][/\ Len(conversation_history') >= Len(conversation_history)
        /\ SubSeq(conversation_history', 1, Len(conversation_history))
             = conversation_history]_vars

\* a generation prompt is in flight while the history holds four turns whose
\* oldest differs from the three read
C12_Witness ==
  /\ pc = "generate" /\ request.kind = "generate"
  /\ Len(conversation_history) = 4
  /\ conversation_history[1] # conversation_history[2]
  /\ conversation_history[1] # conversation_history[4]

\* what agent a can read through the name n of its workspace: the binding and,
\* for a dataset object, the object's state
Visible(a, n) ==
  IF contexts[a][n] \in Objects
  THEN << contexts[a][n], objects[contexts[a][n]] >>
  ELSE << contexts[a][n] >>

\* C13: with two agents, each loaded by its own caller, whatever loads and
\* executions interleave: every name bound by code is bound only in the
\* workspace of the agent that ran the code, the dataset an agent sees as df
\* (and keeps as self.df) carries only that agent's own changes and is an
\* object no other agent holds, and the dataset objects the callers passed to
\* load_data are never changed.
C13_WorkspacesIsolated ==
  /\ \A a \in Agents, n \in Names \ Aliases :
        contexts[a][n] \in Agents => contexts[a][n] = a
  /\ \A a \in Agents :
        agent_df[a] # None =>
          /\ objects[agent_df[a]].edits \subseteq {a}
          /\ \A b \in Agents \ {a} :
                agent_df[b] # agent_df[a] /\ contexts[b]["df"] # agent_df[a]
  /\ \A f \in Files : objects[f] = Frame(FileData(f))

\* both agents are loaded from different datasets; a1's code bound result and
\* changed its df in place, a2's workspace shows neither
C13_Witness ==
  /\ agent_df["a1"] # None /\ agent_df["a2"] # None
  /\ objects[agent_df["a1"]].data # objects[agent_df["a2"]].data
  /\ contexts["a1"]["result"] = "a1"
  /\ contexts["a1"]["df"] \in Objects /\ contexts["a2"]["df"] \in Objects
  /\ Visible("a1", "df")[2].edits = {"a1"}
  /\ contexts["a2"]["result"] = None
  /\ Visible("a2", "df") = << agent_df["a2"], Frame(objects[agent_df["a2"]].data) >>

\* ---- a reading of "the code extracted from a reply", by positions
Least(S) == CHOOSE i \in S : \A j \in S : i <= j
Greatest(S) == CHOOSE i \in S : \A j \in S : j <= i

\* positions of t at which a fence marker stands
FenceAt(t) == { i \in 1..Len(t) : t[i] = "[fence]" }

\* positions of t at which a python-tagged fence marker starts
PyFenceAt(t) == { i \in FenceAt(t) : i < Len(t) /\ t[i + 1] = "python" }

\* t without its leading and trailing whitespace
Trimmed(t) ==
  LET ink == { k \in 1..Len(t) : t[k] \notin {" ", "\n"} }
  IN IF ink = {} THEN <<>> ELSE SubSeq(t, Least(ink), Greatest(ink))

\* what stands in t from position from up to the next fence marker (or the end)
BlockContent(t, from) ==
  LET closing == { j \in FenceAt(t) : j >= from }
  IN Trimmed(SubSeq(t, from, IF closing = {} THEN Len(t) ELSE Least(closing) - 1))

\* the first python-tagged block's content, else the first block's content,
\* else the text
ExtractedCode(t) ==
  IF PyFenceAt(t) # {} THEN BlockContent(t, Least(PyFenceAt(t)) + 2)
  ELSE IF FenceAt(t) # {} THEN BlockContent(t, Least(FenceAt(t)) + 1)
  ELSE t

\* a call of execute_with_retry (direct or from process_instruction) is over
\* and made at least one execute call
RetryOver == Idle /\ call # "none" /\ execCalls > 0

\* the repair request in flight carries the code of the attempt that just
\* failed and that attempt's error, and an attempt after the first runs the
\* code extracted from the fixer's reply
RepairChain ==
  /\ pc = "fix" => request = [kind |-> "fix", code |-> code, error |-> result.error]
  /\ (pc = "execute" /\ attempt > 0) =>
        reply.kind = "fixer" /\ code = ExtractedCode(reply.text)

\* C14 (as stated): repair requests carry the failing code and error, the next
\* execute runs the fixer's code, and execute and fixer calls alternate,
\* starting and ending with an execute call.
C14_AlternateEndingWithExecute ==
  /\ RepairChain
  /\ execCalls - fixCalls \in {0, 1}
  /\ RetryOver => execCalls = fixCalls + 1

\* C14 (amended): as above, but the sequence ends with an execute call only
\* if no fixer call raised; a fixer call that raises is the last call.
C14_AlternateUntilFixerRaises ==
  /\ RepairChain
  /\ execCalls - fixCalls \in {0, 1}
  /\ RetryOver => execCalls = fixCalls + (IF raised = "fixer" THEN 0 ELSE 1)

\* the second repair request of an instruction is in flight: it carries the
\* fixer's first code, which is not the generated code, and the second error
C14_Witness ==
  /\ pc = "fix" /\ call = "process" /\ fixCalls = 2 /\ execCalls = 2
  /\ request.code # pcode /\ request.code = <<"c2">>
  /\ request.error = <<"e2">>

\* C15: whichever collaborator replied, the code about to be executed is the
\* content of the reply's first python-tagged block if the reply has a
\* python-tagged fence (even after an untagged block), else the content of its
\* first fenced block if it has any fence, else the reply itself, unchanged;
\* the generator's and the fixer's replies are treated alike, and the code
\* holds no fence marker.
C15_ExtractionPrecedence ==
  (pc = "execute" /\ reply.kind \in {"generator", "fixer"}) =>
    /\ code = ExtractedCode(reply.text)
    /\ FenceAt(code) = {}
    /\ reply.kind = "generator" => pcode = code

\* the fixer replied an untagged block followed by a python-tagged block and
\* the content of the latter is about to run
C15_Witness ==
  /\ pc = "execute" /\ reply.kind = "fixer"
  /\ reply.text =
       <<"[fence]", "c1", "[fence]", " ", "[fence]", "python", " ", "c2", "[fence]">>
  /\ code = <<"c2">>

\* this step ends a process_instruction whose execution reached a result: the
\* last attempt was made (from "execute") or the summarizer was asked (from
\* "report")
EndsAfterExecution == InProcess /\ pc \in {"execute", "report"} /\ pc' = "idle"

\* the history gained exactly one turn, at its end
OneTurnAppended ==
  /\ Len(conversation_history') = Len(conversation_history) + 1
  /\ SubSeq(conversation_history', 1, Len(conversation_history)) = conversation_history

\* C16: an instruction whose execution ends Succeeded or Exhausted appends
\* exactly one turn, holding the instruction and the report (the final error
\* when exhausted), to the end of the history; every other step, an
\* instruction without dataset or stopped by a generator or fixer failure
\* included, leaves the history as it is.
C16_OneTurnPerCompletedInstruction ==
  [][IF EndsAfterExecution
     THEN /\ OneTurnAppended
          /\ conversation_history'[Len(conversation_history')] =
               [user |-> user_instruction,
                agent |-> IF result'.success THEN ret'.value.report ELSE result'.error]
     ELSE conversation_history' = conversation_history]_vars

\* C17: in a browser session, a step that loads a dataset into the agent
\* there is leaves the history as it is; the history changes only by gaining
\* one turn or, on Clear & Reload (which also empties the session's chat
\* history), by becoming empty; and the generation prompt of an instruction
\* carries the dataset now loaded together with the turns recorded so far.
C17_LoadKeepsHistory ==
  /\ [][/\ \/ conversation_history' = conversation_history
           \/ OneTurnAppended /\ pc # "idle"
           \/ /\ conversation_history' = <<>>
              /\ pc = "idle" /\ chat_history # <<>> /\ chat_history' = <<>>
        /\ (session_agent /\ pc = "idle" /\ pc' = "idle" /\ chat_history' = chat_history)
             => conversation_history' = conversation_history]_vars
  /\ [](pc = "generate" =>
          /\ request.data_summary = df
          /\ request.history =
               IF conversation_history = <<>> THEN <<"No previous conversation">>
               ELSE RecentText(conversation_history, 1))

\* the agent holds d2 and a workspace with only the seeded names, and the
\* prompt in flight for i2 carries the turn recorded for i1
C17_Witness ==
  /\ pc = "generate" /\ call = "app" /\ session_agent
  /\ df = "d2" /\ request.data_summary = "d2" /\ executor.context = Reserved
  /\ Len(conversation_history) = 1 /\ conversation_history[1].user = "i1"
  /\ request.user_instruction = "i2"
  /\ request.history = <<"User: ", "i1", "\nAgent: ", "r1", "...">>

====
